---------------------------- MODULE Spec2Model ----------------------------
(***************************************************************************)
(* Book Haven (src/app.py): a Flask application that scrapes catalogue     *)
(* pages, derives title recommendations and rating statistics, and takes   *)
(* orders.  The three pipeline functions are modelled as operators, the    *)
(* three request handlers as actions.                                      *)
(*                                                                         *)
(* Representation                                                          *)
(*   - a title is the sequence of its lower-cased word tokens;             *)
(*   - a price text is the sequence of its characters, a price a number of *)
(*     cents;                                                              *)
(*   - np.nan is the value NaN, which every sum absorbs;                   *)
(*   - an image path is the sequence of its segments;                      *)
(*   - a dict is a function, an empty dict or list is << >>.               *)
(***************************************************************************)
EXTENDS Integers, Sequences, FiniteSets

VARIABLES
    op,               \* the operation that ran: "idle" before any
    web,              \* what each catalogue page answers to requests.get
    pages,            \* the page count handed to scrape_books_to_scrape
    books,            \* the records: scraped, or handed to the function
    top_n,            \* recommend_books' top_n
    selected_books,   \* request.form.getlist("selected_books"), as a set
    raised,           \* the exception that left the operation, or "none"
    fetched,          \* the page indices requested, in order
    invoked,          \* the pipeline functions the operation called
    stats,            \* analyze_sentiments' dict in << >>, or << >> for {}
    recommendations,  \* recommend_books' list
    title_to_recs,    \* index's dict from title to recs
    shown,            \* per listed book, the recommendations rendered
    chart,            \* index's <<chart_labels, chart_values>>
    total             \* order's total in << >>, or << >> when none

vars == <<op, web, pages, books, top_n, selected_books, raised, fetched,
          invoked, stats, recommendations, title_to_recs, shown, chart, total>>

---------------------------------------------------------------------------
(* Bounds of the model *)

MaxPages == 2
EntriesPerPage == 2
MaxBooks == 3
MaxTopN == 2

(* Constants of the program *)

PagesPerRequest == 2
DefaultTopN == 5
NaN == -1

---------------------------------------------------------------------------
(* The catalogue site: the markup of a product entry.  "P" stands for the   *)
(* pound sign of a price text; the second entry has no price text and an   *)
(* unrecognised rating class, the third a title of stop words only.        *)

Entry(title, price_text, rating_class, img_src) ==
    [title |-> title, price_text |-> price_text,
     rating_class |-> rating_class, img_src |-> img_src]

Catalog ==
    { Entry(<<"red", "cat">>, <<"P", "5", "1", ".", "7", "7">>, "Three",
            <<"..", "media", "a.jpg">>),
      Entry(<<"the", "red", "cat">>, << >>, "Zero",
            <<"..", "..", "media", "b.jpg">>),
      Entry(<<"the">>, <<"P", "3", ".", "5">>, "Five",
            <<"media", "c.jpg">>) }

PageBodies == UNION { [1..n -> Catalog] : n \in 0..EntriesPerPage }

Response(status_code, exc, body) ==
    [status_code |-> status_code, exc |-> exc, body |-> body]

(* What requests.get can end in: a 200 with a body, another status (whose   *)
(* body may hold entries too), or a raised ConnectionError or Timeout.      *)
FetchOutcomes ==
    { Response(200, "none", b) : b \in PageBodies }
    \cup { Response(404, "none", b) : b \in { s \in PageBodies : Len(s) = 1 } }
    \cup { Response(0, "ConnectionError", << >>),
           Response(0, "Timeout", << >>) }

---------------------------------------------------------------------------
(* scrape_books_to_scrape *)

Digits == {"0", "1", "2", "3", "4", "5", "6", "7", "8", "9"}

DigitVal(c) ==
    CASE c = "0" -> 0 [] c = "1" -> 1 [] c = "2" -> 2 [] c = "3" -> 3
      [] c = "4" -> 4 [] c = "5" -> 5 [] c = "6" -> 6 [] c = "7" -> 7
      [] c = "8" -> 8 [] c = "9" -> 9

IsPriceChar(c) == c \in Digits \cup {"."}

\* re.sub(r'[^0-9.]', '', price_text)
Cleaned(price_text) == SelectSeq(price_text, IsPriceChar)

RECURSIVE NatOf(_)
NatOf(ds) ==
    IF ds = << >> THEN 0
    ELSE 10 * NatOf(SubSeq(ds, 1, Len(ds) - 1)) + DigitVal(ds[Len(ds)])

DotAt(s) ==
    IF \E k \in 1..Len(s) : s[k] = "."
    THEN CHOOSE k \in 1..Len(s) : s[k] = "." /\ \A j \in 1..(k - 1) : s[j] # "."
    ELSE Len(s) + 1

\* float(cleaned), in cents, of a decimal with at most two fraction digits
FloatOf(cleaned) ==
    LET d    == DotAt(cleaned)
        frac == SubSeq(cleaned, d + 1, Len(cleaned))
    IN  100 * NatOf(SubSeq(cleaned, 1, d - 1))
          + (IF Len(frac) = 1 THEN 10 * NatOf(frac) ELSE NatOf(frac))

\* price = float(cleaned) if cleaned else np.nan
PriceOf(price_text) ==
    LET cleaned == Cleaned(price_text)
    IN  IF cleaned # << >> THEN FloatOf(cleaned) ELSE NaN

\* rating_map.get(rating_class, np.nan)
RatingOf(rating_class) ==
    CASE rating_class = "One" -> 1
      [] rating_class = "Two" -> 2
      [] rating_class = "Three" -> 3
      [] rating_class = "Four" -> 4
      [] rating_class = "Five" -> 5
      [] OTHER -> NaN

IsNotParent(seg) == seg # ".."

\* "http://books.toscrape.com/" + src.replace('../', '')
ImageOf(img_src) ==
    <<"http://books.toscrape.com">> \o SelectSeq(img_src, IsNotParent)

BookOf(art) ==
    [title |-> art.title, price |-> PriceOf(art.price_text),
     rating |-> RatingOf(art.rating_class), source |-> "BooksToScrape",
     image |-> ImageOf(art.img_src)]

\* the records of one page's product entries, in document order
BooksOfPage(body) == [k \in 1..Len(body) |-> BookOf(body[k])]

\* One turn of the page loop: a raised requests.get leaves the function,
\* a non-200 status skips the page, a 200 appends the page's records.
RECURSIVE ScrapeLoopBreaking(_, _, _, _, _)
ScrapeLoopBreaking(page, n, site, acc, asked) ==
    IF page > n THEN [raised |-> "none", books |-> acc, fetched |-> asked]
    ELSE LET res == site[page] IN
         IF res.exc # "none"
         THEN [raised |-> res.exc, books |-> << >>,
               fetched |-> Append(asked, page)]
         ELSE IF res.status_code # 200
         THEN [raised |-> "none", books |-> acc,
               fetched |-> Append(asked, page)]
         ELSE ScrapeLoopBreaking(page + 1, n, site,
                                 acc \o BooksOfPage(res.body),
                                 Append(asked, page))

RECURSIVE ScrapeLoop(_, _, _, _, _)
ScrapeLoop(page, n, site, acc, asked) ==
    IF page > n THEN [raised |-> "none", books |-> acc, fetched |-> asked]
    ELSE LET res == site[page] IN
         IF res.exc # "none"
         THEN [raised |-> res.exc, books |-> << >>,
               fetched |-> Append(asked, page)]
         ELSE IF res.status_code # 200
         THEN ScrapeLoop(page + 1, n, site, acc, Append(asked, page))
         ELSE ScrapeLoop(page + 1, n, site, acc \o BooksOfPage(res.body),
                         Append(asked, page))

ScrapeBooksToScrape(n, site) == ScrapeLoop(1, n, site, << >>, << >>)

---------------------------------------------------------------------------
(* recommend_books *)

\* a few of the words of scikit-learn's built-in English stop list
StopWords == {"the", "of", "it"}

IsTerm(word) == word \notin StopWords

\* the analyzer of TfidfVectorizer(stop_words='english'): the tokens of a
\* title that are no stop words
Terms(title) == SelectSeq(title, IsTerm)

TitlesOf(bks) == [k \in 1..Len(bks) |-> bks[k].title]

\* the vocabulary fit_transform learns
Vocabulary(titles) ==
    UNION { { Terms(titles[k])[p] : p \in 1..Len(Terms(titles[k])) }
            : k \in 1..Len(titles) }

\* term frequency: the occurrences of a term in a title
Tf(title, term) ==
    Cardinality({ p \in 1..Len(title) : title[p] = term })

\* document frequency: the titles that hold a term
Df(titles, term) ==
    Cardinality({ k \in 1..Len(titles) :
                    \E p \in 1..Len(titles[k]) : titles[k][p] = term })

\* 10 * ln(k), rounded
LnTenths(k) ==
    CASE k = 1 -> 0  [] k = 2 -> 7  [] k = 3 -> 11 [] k = 4 -> 14
      [] k = 5 -> 16 [] k = 6 -> 18 [] k = 7 -> 19 [] k = 8 -> 21
      [] k = 9 -> 22 [] OTHER -> 23

\* smooth idf, ln((1 + n) / (1 + df)) + 1, in tenths
Idf(n, df) == 10 + LnTenths(1 + n) - LnTenths(1 + df)

RECURSIVE SumOver(_, _)
SumOver(S, f) ==
    IF S = {} THEN 0
    ELSE LET x == CHOOSE y \in S : TRUE IN f[x] + SumOver(S \ {x}, f)

\* an array, every element computed once
AsArray(f) == SubSeq(f, 1, Len(f))

\* cosine_similarity(tfidf_matrix, tfidf_matrix), kept exact.  The weight of
\* a term in a title is tf * idf; the matrix holds the dot products of these
\* rows before their L2 normalisation, the squared norms on its diagonal, so
\* that cosine_sim[i][j] = dot[i][j] / sqrt(dot[i][i] * dot[j][j]), and 0 for
\* a row of zeros
CosineSimilarity(titles) ==
    LET vocab == Vocabulary(titles)
        n     == Len(titles)
        idf   == [t \in vocab |-> Idf(n, Df(titles, t))]
        Row(i) == AsArray([j \in 1..n |->
                     SumOver(vocab, [t \in vocab |->
                        (Tf(titles[i], t) * idf[t])
                          * (Tf(titles[j], t) * idf[t])])])
    IN  AsArray([i \in 1..n |-> Row(i)])

\* cosine_sim[i][j] > cosine_sim[i][k]
ScoreGreater(dot, i, j, k) ==
    IF dot[i][i] = 0 \/ dot[j][j] = 0 \/ dot[i][j] = 0 THEN FALSE
    ELSE IF dot[k][k] = 0 THEN TRUE
    ELSE dot[i][j] * dot[i][j] * dot[k][k] > dot[i][k] * dot[i][k] * dot[j][j]

\* sorted(list(enumerate(cosine_sim[idx])), key=lambda x: x[1], reverse=True):
\* the indices by score descending; the sort is stable, so equal scores keep
\* their index order
SortedScores(dot, idx) ==
    LET n == Len(dot)
        Before(j, k) == \/ ScoreGreater(dot, idx, j, k)
                        \/ /\ ~ScoreGreater(dot, idx, k, j)
                           /\ j < k
        rank == AsArray([k \in 1..n |->
                           Cardinality({ j \in 1..n : Before(j, k) })])
    IN  AsArray([r \in 1..n |-> CHOOSE k \in 1..n : rank[k] = r - 1])

Min(a, b) == IF a < b THEN a ELSE b

\* a variant that drops the record itself wherever it ranks
SimScoresWithoutSelf(dot, idx, n_top) ==
    LET others == SelectSeq(SortedScores(dot, idx), LAMBDA k : k # idx)
    IN  SubSeq(others, 1, Min(Len(others), n_top))

\* sim_scores after the slice [1:top_n+1]: the first of the sorted indices is
\* dropped, the next top_n are kept
SimScores(dot, idx, n_top) ==
    LET ranked == SortedScores(dot, idx)
    IN  SubSeq(ranked, 2, Min(Len(ranked), n_top + 1))

\* recommend_books: fit_transform raises ValueError ("empty vocabulary") when
\* no title holds a term, which is the case of no title at all
RecommendBooks(bks, n_top) ==
    LET titles == TitlesOf(bks) IN
    IF Vocabulary(titles) = {}
    THEN [raised |-> "ValueError", value |-> << >>]
    ELSE LET dot == CosineSimilarity(titles) IN
         [raised |-> "none",
          value  |-> AsArray([idx \in 1..Len(titles) |->
                        LET sim_scores == SimScores(dot, idx, n_top) IN
                        [title |-> titles[idx],
                         recs  |-> AsArray([r \in 1..Len(sim_scores) |->
                                              titles[sim_scores[r]]])]])]

---------------------------------------------------------------------------
(* analyze_sentiments *)

IsPresent(x) == x # NaN

RatingsOf(bks) == [k \in 1..Len(bks) |-> bks[k].rating]

\* a variant that keeps the missing ratings
UnfilteredRatings(bks) == RatingsOf(bks)

\* [b['rating'] for b in books if not pd.isna(b['rating'])]
PresentRatings(bks) == SelectSeq(RatingsOf(bks), IsPresent)

RECURSIVE SeqSum(_)
SeqSum(s) == IF s = << >> THEN 0 ELSE s[1] + SeqSum(Tail(s))

\* round(num / den, 2) in hundredths: to the nearest, a tie to the even one
RoundedHundredths(num, den) ==
    LET q == (100 * num) \div den
        r == (100 * num) % den
    IN  IF 2 * r > den \/ (2 * r = den /\ q % 2 = 1) THEN q + 1 ELSE q

SeqMax(s) == CHOOSE x \in { s[k] : k \in 1..Len(s) } :
                 \A k \in 1..Len(s) : s[k] <= x

SeqMin(s) == CHOOSE x \in { s[k] : k \in 1..Len(s) } :
                 \A k \in 1..Len(s) : x <= s[k]

\* ratings.value_counts().sort_index().to_dict(): the pairs <<rating, count>>
\* in ascending order of rating
ValueCounts(s) ==
    LET keys == { s[k] : k \in 1..Len(s) }
        pos(x) == Cardinality({ y \in keys : y < x }) + 1
    IN  [r \in 1..Cardinality(keys) |->
            LET x == CHOOSE y \in keys : pos(y) = r
            IN  <<x, Cardinality({ k \in 1..Len(s) : s[k] = x })>>]

\* the mean, the maximum and the minimum of an empty Series are nan
AnalyzeSentiments(bks) ==
    LET ratings == PresentRatings(bks) IN
    [average_rating |-> IF ratings = << >> THEN NaN
                        ELSE RoundedHundredths(SeqSum(ratings), Len(ratings)),
     highest_rating |-> IF ratings = << >> THEN NaN ELSE SeqMax(ratings),
     lowest_rating  |-> IF ratings = << >> THEN NaN ELSE SeqMin(ratings),
     count          |-> Len(ratings),
     rating_distribution |-> ValueCounts(ratings)]

---------------------------------------------------------------------------
(* The handlers' own computations *)

\* {rec['title']: rec['recs'] for rec in recommendations}: a later entry of
\* the same title replaces the earlier one
TitleToRecs(recs) ==
    [t \in { recs[k].title : k \in 1..Len(recs) } |->
        recs[CHOOSE k \in 1..Len(recs) :
                /\ recs[k].title = t
                /\ \A j \in (k + 1)..Len(recs) : recs[j].title # t].recs]

\* title_to_recs.get(book.title, [])
Get(d, key) == IF key \in DOMAIN d THEN d[key] ELSE << >>

\* float addition: nan absorbs
Plus(a, b) == IF a = NaN \/ b = NaN THEN NaN ELSE a + b

\* a variant that counts every selected title once
RECURSIVE OrderTotalPerTitle(_, _)
OrderTotalPerTitle(bks, selected) ==
    IF bks = << >> THEN 0
    ELSE IF bks[1].title \in selected
    THEN Plus(bks[1].price,
              OrderTotalPerTitle(Tail(bks), selected \ {bks[1].title}))
    ELSE OrderTotalPerTitle(Tail(bks), selected)

\* sum([book['price'] for book in books if book['title'] in selected_books])
RECURSIVE OrderTotal(_, _)
OrderTotal(bks, selected) ==
    IF bks = << >> THEN 0
    ELSE LET rest == OrderTotal(SubSeq(bks, 1, Len(bks) - 1), selected)
             last == bks[Len(bks)]
         IN  IF last.title \in selected THEN Plus(rest, last.price) ELSE rest

\* f"{total:.2f}": nan, or the dollars and the two digits of the cents
Format2f(x) ==
    IF x = NaN THEN [text |-> "nan", dollars |-> 0, cents |-> 0]
    ELSE [text |-> "number", dollars |-> x \div 100, cents |-> x % 100]

---------------------------------------------------------------------------
(* The inputs *)

SiteTitles == { art.title : art \in Catalog }

Feedbacks == {"None", "great"}

\* titles for the records handed to recommend_books
Titles ==
    SiteTitles \cup { <<"red", "dog">>, <<"dog">> }

Book(title, price, rating) ==
    [title |-> title, price |-> price, rating |-> rating,
     source |-> "BooksToScrape", image |-> <<"http://books.toscrape.com">>]

SeqsUpTo(S, n) == UNION { [1..k -> S] : k \in 0..n }

RecommendInputs == SeqsUpTo({ Book(t, 1000, 3) : t \in Titles }, MaxBooks)

AnalyzeInputs ==
    SeqsUpTo({ Book(<<"red", "cat">>, 1000, r) : r \in (1..5) \cup {NaN} },
             MaxBooks)

---------------------------------------------------------------------------
(* The state machine *)

Blank ==
    /\ op = "idle"
    /\ web = << >>
    /\ pages = 0
    /\ books = << >>
    /\ top_n = 0
    /\ selected_books = {}
    /\ raised = "none"
    /\ fetched = << >>
    /\ invoked = {}
    /\ stats = << >>
    /\ recommendations = << >>
    /\ title_to_recs = << >>
    /\ shown = << >>
    /\ chart = << >>
    /\ total = << >>

\* what index does with the scraped records, up to the rendering; each value
\* is bound once, as the handler's locals are
IndexRender(site, scraped, bks) ==
    \E recd \in { IF bks # << >> THEN RecommendBooks(bks, DefaultTopN)
                  ELSE [raised |-> "none", value |-> << >>] },
       st \in { IF bks # << >> THEN <<AnalyzeSentiments(bks)>> ELSE << >> } :
    \E t2r \in { IF recd.value # << >> THEN TitleToRecs(recd.value)
                 ELSE << >> },
       ok \in { scraped.raised = "none" /\ recd.raised = "none" } :
        /\ op' = "index"
        /\ web' = site
        /\ pages' = PagesPerRequest
        /\ fetched' = scraped.fetched
        /\ books' = bks
        /\ top_n' = DefaultTopN
        /\ raised' = IF scraped.raised # "none" THEN scraped.raised
                     ELSE recd.raised
        /\ invoked' = IF scraped.raised # "none" \/ bks = << >>
                      THEN {"scrape"}
                      ELSE {"scrape", "analyze", "recommend"}
        /\ stats' = IF scraped.raised = "none" THEN st ELSE << >>
        /\ recommendations' = IF ok THEN recd.value ELSE << >>
        /\ title_to_recs' = IF ok THEN t2r ELSE << >>
        /\ shown' = IF ok
                    THEN [k \in 1..Len(bks) |-> Get(t2r, bks[k].title)]
                    ELSE << >>
        /\ chart' = IF ok /\ st # << >>
                    THEN LET dist == st[1].rating_distribution IN
                         <<[k \in 1..Len(dist) |-> dist[k][1]],
                           [k \in 1..Len(dist) |-> dist[k][2]]>>
                    ELSE << << >>, << >> >>
        /\ UNCHANGED <<selected_books, total>>

\* GET /
Index ==
    /\ op = "idle"
    /\ \E site \in [1..PagesPerRequest -> FetchOutcomes] :
        \E scraped \in { ScrapeBooksToScrape(PagesPerRequest, site) } :
            IndexRender(site, scraped, scraped.books)

\* GET /order
OrderGet ==
    /\ op = "idle"
    /\ \E site \in [1..PagesPerRequest -> FetchOutcomes] :
        \E scraped \in { ScrapeBooksToScrape(PagesPerRequest, site) } :
            /\ op' = "order_get"
            /\ web' = site
            /\ pages' = PagesPerRequest
            /\ fetched' = scraped.fetched
            /\ books' = scraped.books
            /\ raised' = scraped.raised
            /\ invoked' = {"scrape"}
            /\ UNCHANGED <<top_n, selected_books, stats, recommendations,
                           title_to_recs, shown, chart, total>>

\* POST /order
OrderPost ==
    /\ op = "idle"
    /\ \E site \in [1..PagesPerRequest -> FetchOutcomes] :
        \E scraped \in { ScrapeBooksToScrape(PagesPerRequest, site) } :
        \E selected \in SUBSET SiteTitles, feedback \in Feedbacks :
        \E sum \in { OrderTotal(scraped.books, selected) } :
            /\ op' = "order_post"
            /\ web' = site
            /\ pages' = PagesPerRequest
            /\ fetched' = scraped.fetched
            /\ books' = scraped.books
            /\ selected_books' = selected
            /\ raised' = scraped.raised
            /\ invoked' = {"scrape"}
            /\ total' = IF scraped.raised = "none"
                        THEN <<[value |-> sum, text |-> Format2f(sum),
                                feedback |-> feedback]>>
                        ELSE << >>
            /\ UNCHANGED <<top_n, stats, recommendations, title_to_recs,
                           shown, chart>>

\* the response is sent; nothing of a request outlives it
Respond ==
    /\ op \in {"index", "order_get", "order_post"}
    /\ op' = "idle"
    /\ web' = << >>
    /\ pages' = 0
    /\ books' = << >>
    /\ top_n' = 0
    /\ selected_books' = {}
    /\ raised' = "none"
    /\ fetched' = << >>
    /\ invoked' = {}
    /\ stats' = << >>
    /\ recommendations' = << >>
    /\ title_to_recs' = << >>
    /\ shown' = << >>
    /\ chart' = << >>
    /\ total' = << >>

Init == Blank

Next == Index \/ OrderGet \/ OrderPost \/ Respond

Spec == Init /\ [][Next]_vars

---------------------------------------------------------------------------
(* scrape_books_to_scrape on every page count and every site *)

InitScrape ==
    /\ op = "idle"
    /\ pages \in 0..MaxPages
    /\ web \in [1..pages -> FetchOutcomes]
    /\ books = << >>
    /\ top_n = 0
    /\ selected_books = {}
    /\ raised = "none"
    /\ fetched = << >>
    /\ invoked = {}
    /\ stats = << >>
    /\ recommendations = << >>
    /\ title_to_recs = << >>
    /\ shown = << >>
    /\ chart = << >>
    /\ total = << >>

Scrape ==
    /\ op = "idle"
    /\ LET scraped == ScrapeBooksToScrape(pages, web)
       IN  /\ op' = "scrape"
           /\ books' = scraped.books
           /\ raised' = scraped.raised
           /\ fetched' = scraped.fetched
           /\ invoked' = {"scrape"}
    /\ UNCHANGED <<web, pages, top_n, selected_books, stats, recommendations,
                   title_to_recs, shown, chart, total>>

SpecScrape == InitScrape /\ [][Scrape]_vars

---------------------------------------------------------------------------
(* recommend_books on every list of records and every top_n *)

InitRecommend ==
    /\ op = "idle"
    /\ books \in RecommendInputs
    /\ top_n \in 1..MaxTopN
    /\ web = << >>
    /\ pages = 0
    /\ selected_books = {}
    /\ raised = "none"
    /\ fetched = << >>
    /\ invoked = {}
    /\ stats = << >>
    /\ recommendations = << >>
    /\ title_to_recs = << >>
    /\ shown = << >>
    /\ chart = << >>
    /\ total = << >>

Recommend ==
    /\ op = "idle"
    /\ LET recd == RecommendBooks(books, top_n)
       IN  /\ op' = "recommend"
           /\ raised' = recd.raised
           /\ recommendations' = recd.value
           /\ invoked' = {"recommend"}
    /\ UNCHANGED <<web, pages, books, top_n, selected_books, fetched, stats,
                   title_to_recs, shown, chart, total>>

SpecRecommend == InitRecommend /\ [][Recommend]_vars

---------------------------------------------------------------------------
(* analyze_sentiments on every list of records *)

InitAnalyze ==
    /\ op = "idle"
    /\ books \in AnalyzeInputs
    /\ top_n = 0
    /\ web = << >>
    /\ pages = 0
    /\ selected_books = {}
    /\ raised = "none"
    /\ fetched = << >>
    /\ invoked = {}
    /\ stats = << >>
    /\ recommendations = << >>
    /\ title_to_recs = << >>
    /\ shown = << >>
    /\ chart = << >>
    /\ total = << >>

Analyze ==
    /\ op = "idle"
    /\ op' = "analyze"
    /\ stats' = <<AnalyzeSentiments(books)>>
    /\ invoked' = {"analyze"}
    /\ UNCHANGED <<web, pages, books, top_n, selected_books, raised, fetched,
                   recommendations, title_to_recs, shown, chart, total>>

SpecAnalyze == InitAnalyze /\ [][Analyze]_vars

---------------------------------------------------------------------------
(* Properties of scrape_books_to_scrape *)

RECURSIVE PagesConcat(_, _)
\* the records of the pages 1..n that answered 200, in page order
PagesConcat(site, n) ==
    IF n = 0 THEN << >>
    ELSE PagesConcat(site, n - 1)
           \o (IF site[n].exc = "none" /\ site[n].status_code = 200
               THEN BooksOfPage(site[n].body) ELSE << >>)

\* C1: scrape never lets an exception out: whatever the pages' fetches end in
\* (200, another status, a network error, a timeout), it returns, a page whose
\* fetch failed gives no record and the other pages are still processed.
C1_NoExceptionEscapes ==
    op = "scrape" =>
        /\ raised = "none"
        /\ books = PagesConcat(web, pages)
        /\ Len(fetched) = pages

\* C7: for every page count P >= 0, when every page answers with a status,
\* scrape returns; and what it returns is the concatenation, over the pages
\* 1..P in ascending order, of the records of the pages that answered 200, in
\* document order.  A non-200 page gives nothing and stops nothing: every page
\* is requested, the length is at most EntriesPerPage * P, and scrape(0)
\* returns the empty sequence without a request.
C7_ScrapeConcatenates ==
    op = "scrape" =>
        /\ (\A p \in 1..pages : web[p].exc = "none") => raised = "none"
        /\ raised = "none" =>
              /\ books = PagesConcat(web, pages)
              /\ Len(books) <= EntriesPerPage * pages
              /\ fetched = [k \in 1..pages |-> k]
        /\ pages = 0 => raised = "none" /\ books = << >> /\ fetched = << >>

\* a non-200 page, then a 200 page whose records are returned
C7_Witness ==
    /\ op = "scrape"
    /\ pages = 2
    /\ raised = "none"
    /\ web[1].status_code = 404
    /\ web[1].body # << >>
    /\ web[2].status_code = 200
    /\ Len(books) = 2
    /\ books = BooksOfPage(web[2].body)

---------------------------------------------------------------------------
(* Properties of recommend_books *)

\* the indices other than i, by score to i descending, equal scores by index
\* ascending, cut to n_top
OthersRanked(dot, i, n_top) ==
    LET others == (1..Len(dot)) \ {i}
        Before(j, k) == \/ ScoreGreater(dot, i, j, k)
                        \/ (~ScoreGreater(dot, i, k, j) /\ j < k)
        place(k) == Cardinality({ j \in others : Before(j, k) }) + 1
        all == [r \in 1..Cardinality(others) |->
                   CHOOSE k \in others : place(k) = r]
    IN  SubSeq(all, 1, Min(Len(all), n_top))

\* C2: whenever recommend returns, the recs of entry i are the titles of the
\* top_n records other than record i, ranked by similarity to record i
\* descending, ties by index ascending; record i is never among its own
\* selected recommendations.
C2_RecsExcludeSelf ==
    (op = "recommend" /\ raised = "none") =>
        LET titles == TitlesOf(books)
            dot    == CosineSimilarity(titles)
        IN  \A i \in 1..Len(books) :
               LET want == OthersRanked(dot, i, top_n)
                   took == SimScores(dot, i, top_n)
               IN  /\ recommendations[i].recs
                        = [r \in 1..Len(want) |-> titles[want[r]]]
                   /\ \A r \in 1..Len(took) : took[r] # i

\* C3: recommend on an empty sequence of records returns an empty sequence
\* and raises nothing.
C3_EmptyInputReturnsEmpty ==
    (op = "recommend" /\ books = << >>) =>
        raised = "none" /\ recommendations = << >>

\* C8: for every non-empty input of n records and every positive top_n,
\* recommend returns n entries, entry i with the title of record i, each with
\* min(top_n, n - 1) recs.
C8_OneEntryPerRecord ==
    (op = "recommend" /\ books # << >>) =>
        /\ raised = "none"
        /\ Len(recommendations) = Len(books)
        /\ \A i \in 1..Len(books) :
              /\ recommendations[i].title = books[i].title
              /\ Len(recommendations[i].recs) = Min(top_n, Len(books) - 1)

---------------------------------------------------------------------------
(* Properties of analyze_sentiments *)

HasPresentRating(bks) == \E k \in 1..Len(bks) : bks[k].rating # NaN

HasPresentRatingField(b) == b.rating # NaN

\* C9: for records with at least one present rating, every statistic is over
\* the present ratings only: count is their number, highest and lowest their
\* maximum and minimum, average their mean to the nearest hundredth (between
\* lowest and highest), the distribution gives each distinct present rating
\* its number of occurrences, in ascending order of rating, the counts adding
\* up to count; the records with a missing rating change nothing.
C9_StatsOverPresentRatings ==
    (op = "analyze" /\ HasPresentRating(books)) =>
        LET st      == stats[1]
            present == { k \in 1..Len(books) : books[k].rating # NaN }
            sum     == SumOver(present, [k \in present |-> books[k].rating])
            dist    == st.rating_distribution
        IN  /\ st.count = Cardinality(present)
            /\ \E k \in present : books[k].rating = st.highest_rating
            /\ \A k \in present : books[k].rating <= st.highest_rating
            /\ \E k \in present : books[k].rating = st.lowest_rating
            /\ \A k \in present : books[k].rating >= st.lowest_rating
            /\ 2 * (100 * sum - st.average_rating * st.count) <= st.count
            /\ 2 * (st.average_rating * st.count - 100 * sum) <= st.count
            /\ 100 * st.lowest_rating <= st.average_rating
            /\ st.average_rating <= 100 * st.highest_rating
            /\ { dist[r][1] : r \in 1..Len(dist) }
                 = { books[k].rating : k \in present }
            /\ \A r \in 1..(Len(dist) - 1) : dist[r][1] < dist[r + 1][1]
            /\ \A r \in 1..Len(dist) :
                  dist[r][2] = Cardinality({ k \in present :
                                               books[k].rating = dist[r][1] })
            /\ SeqSum([r \in 1..Len(dist) |-> dist[r][2]]) = st.count
            /\ st = AnalyzeSentiments(SelectSeq(books, HasPresentRatingField))

\* two present ratings that differ, and a missing one
C9_Witness ==
    /\ op = "analyze"
    /\ Len(books) = 3
    /\ \E k \in 1..3 : books[k].rating = NaN
    /\ stats[1].count = 2
    /\ stats[1].lowest_rating < stats[1].highest_rating
    /\ stats[1].average_rating = 350

---------------------------------------------------------------------------
(* Properties of the handlers *)

\* C4: on GET /, analyze is invoked only on records with at least one present
\* rating; with none (no record, or every rating missing) the statistics are
\* left empty.
C4_AnalyzeGuarded ==
    op = "index" =>
        /\ "analyze" \in invoked => HasPresentRating(books)
        /\ (raised = "none" /\ ~HasPresentRating(books)) => stats = << >>

\* C5: on POST /order the total is the sum of the price of every fetched
\* record whose title is selected, a record counted once per occurrence, a
\* selected title that was not fetched adding nothing (nan when a summed price
\* is missing); with nothing selected the total is 0.00.
C5_OrderTotalIsSum ==
    (op = "order_post" /\ raised = "none") =>
        LET sel == { k \in 1..Len(books) : books[k].title \in selected_books }
        IN  /\ Len(total) = 1
            /\ total[1].value =
                  IF \E k \in sel : books[k].price = NaN THEN NaN
                  ELSE SumOver(sel, [k \in sel |-> books[k].price])
            /\ selected_books = {} =>
                  /\ total[1].value = 0
                  /\ total[1].text.text = "number"
                  /\ total[1].text.dollars = 0
                  /\ total[1].text.cents = 0

\* a selected title fetched twice, another selected title not fetched
C5_Witness ==
    /\ op = "order_post"
    /\ raised = "none"
    /\ \E i, j \in 1..Len(books) :
          i < j /\ books[i].title = books[j].title
                /\ books[i].title \in selected_books
    /\ \E t \in selected_books : \A k \in 1..Len(books) : books[k].title # t
    /\ total[1].value = 2 * 5177

\* C6: the total of POST /order is a number, also when the price of a
\* selected record is missing.
C6_TotalIsNumber ==
    (op = "order_post" /\ raised = "none") => total[1].value # NaN

\* C10: on GET /, the recommendations listed under each book are the recs of
\* the entry recommend computed for that book's own position, also when
\* several fetched records share a title.
C10_ShownRecsAreOwnRecs ==
    (op = "index" /\ raised = "none") =>
        /\ Len(shown) = Len(books)
        /\ \A k \in 1..Len(books) :
              books[k].title \in DOMAIN title_to_recs /\
              shown[k] = recommendations[k].recs

\* two records of one title around a record of another, each with recs
C10_Witness ==
    /\ op = "index"
    /\ raised = "none"
    /\ Len(books) = 3
    /\ books[1].title = books[3].title
    /\ books[2].title # books[1].title
    /\ Len(shown[1]) = 2
    /\ shown[1] = recommendations[1].recs

===========================================================================
